---- MODULE Spec2Model ----
(***************************************************************************)
(* The content-API boundary of the AR Automation site:                     *)
(*   - the environment loader      (lib/env.ts: envSchema, env)            *)
(*   - the Zod content-type schemas (types/strapi.ts)                      *)
(*   - the validated client        (lib/strapi.ts: fetchFromStrapi)        *)
(*   - the client in the frontend  (frontend/lib/strapi.ts: fetchAPI)      *)
(* One process: its modules are evaluated, then a caller invokes the two   *)
(* fetch operations one call at a time; the backend and the network pick   *)
(* the response.  A second specification lets the host run several calls   *)
(* at the same time (concurrent page renders), each in a slot of its own.  *)
(***************************************************************************)
EXTENDS Integers, Sequences, FiniteSets, TLC

VARIABLES processEnv, env, STRAPI_URL, call, slots, answers

vars == <<processEnv, env, STRAPI_URL, call, slots, answers>>

(***************************************************************************)
(* Bounds of the model.                                                    *)
(***************************************************************************)
\* longest `data` array of a collection envelope the backend sends
MaxItems == 1
\* number of calls the host runs at the same time
MaxInFlight == 2

(***************************************************************************)
(* JavaScript / JSON values.  Every value carries its runtime type tag, so *)
(* that typeof-tests of the validators are computed and not assumed.       *)
(***************************************************************************)
Undefined == [t |-> "undefined"]
JStr(s) == [t |-> "string", s |-> s]
JNum(n) == [t |-> "number", n |-> n]
JObj(f) == [t |-> "object", f |-> f]
JArr(e) == [t |-> "array", e |-> e]
EmptyObject == [k \in {} |-> Undefined]

\* obj[key] of JavaScript: undefined when the key is absent
Get(obj, key) == IF key \in DOMAIN obj.f THEN obj.f[key] ELSE Undefined

\* { ...a, ...b } on plain key->value maps: the keys of b win
ObjectSpread(a, b) ==
  [k \in (DOMAIN a) \cup (DOMAIN b) |-> IF k \in DOMAIN b THEN b[k] ELSE a[k]]

\* JavaScript truthiness on the values used here
Truthy(v) ==
  CASE v.t = "undefined" -> FALSE
    [] v.t = "string" -> v.s # ""
    [] v.t = "number" -> v.n # 0
    [] OTHER -> TRUE

(***************************************************************************)
(* The strings of the model and the string formats Zod tests.              *)
(***************************************************************************)
Uuid1 == "11111111-1111-1111-1111-111111111111"
Stamp1 == "2024-01-01T00:00:00.000Z"
LocalUrl == "http://localhost:1337"
CmsUrl == "https://cms.example.com"
LegacyUrl == "https://legacy.example.com"

\* z.string().uuid(), .datetime(), .url() on the strings of the model
IsUuid(s) == s \in {Uuid1}
IsDatetime(s) == s \in {Stamp1}
IsUrl(s) == s \in {LocalUrl, CmsUrl, LegacyUrl}

(***************************************************************************)
(* Zod schemas as data, and Zod's parse.                                   *)
(***************************************************************************)
ZString(check) == [k |-> "string", check |-> check]
ZNumber == [k |-> "number"]
ZEnum(values) == [k |-> "enum", values |-> values]
ZOptional(inner) == [k |-> "optional", inner |-> inner]
ZObject(shape) == [k |-> "object", shape |-> shape]
ZArray(item) == [k |-> "array", item |-> item]
ZUnknown == [k |-> "unknown"]

Issue(code, path) == [code |-> code, path |-> path]

\* the issues schema.parse(v) collects, each with the path of the offending field
RECURSIVE ZodIssues(_, _, _)
ZodIssues(schema, v, path) ==
  CASE schema.k = "unknown" -> {}
    [] schema.k = "optional" ->
         IF v.t = "undefined" THEN {} ELSE ZodIssues(schema.inner, v, path)
    [] schema.k = "string" ->
         IF v.t # "string" THEN {Issue("invalid_type", path)}
         ELSE IF schema.check = "uuid" /\ ~IsUuid(v.s) THEN {Issue("invalid_string", path)}
         ELSE IF schema.check = "datetime" /\ ~IsDatetime(v.s) THEN {Issue("invalid_string", path)}
         ELSE IF schema.check = "url" /\ ~IsUrl(v.s) THEN {Issue("invalid_string", path)}
         ELSE {}
    [] schema.k = "number" ->
         IF v.t # "number" THEN {Issue("invalid_type", path)} ELSE {}
    [] schema.k = "enum" ->
         IF v.t # "string" THEN {Issue("invalid_type", path)}
         ELSE IF v.s \notin schema.values THEN {Issue("invalid_enum_value", path)}
         ELSE {}
    [] schema.k = "object" ->
         IF v.t # "object" THEN {Issue("invalid_type", path)}
         ELSE UNION {ZodIssues(schema.shape[key], Get(v, key), Append(path, key)) :
                       key \in DOMAIN schema.shape}
    [] schema.k = "array" ->
         IF v.t # "array" THEN {Issue("invalid_type", path)}
         ELSE UNION {ZodIssues(schema.item, v.e[i], Append(path, ToString(i - 1))) :
                       i \in DOMAIN v.e}

\* a parse that hands the input back as it came (no key is stripped)
ZodOutputPassthrough(schema, v) == v

\* the value schema.parse(v) returns when there is no issue: a z.object keeps
\* the keys of its shape and strips every other key of the input
RECURSIVE ZodOutput(_, _)
ZodOutput(schema, v) ==
  CASE schema.k = "optional" ->
         IF v.t = "undefined" THEN v ELSE ZodOutput(schema.inner, v)
    [] schema.k = "object" ->
         JObj([key \in {x \in DOMAIN schema.shape :
                          x \in DOMAIN v.f
                          \/ ZodOutput(schema.shape[x], Get(v, x)).t # "undefined"} |->
                 ZodOutput(schema.shape[key], Get(v, key))])
    [] schema.k = "array" ->
         JArr([i \in DOMAIN v.e |-> ZodOutput(schema.item, v.e[i])])
    [] OTHER -> v

ZodError(issues) == [name |-> "ZodError", issues |-> issues]

\* schema.safeParse(v); schema.parse(v) throws .error when success is FALSE
ZodParse(schema, v) ==
  LET issues == ZodIssues(schema, v, <<>>)
  IN IF issues = {}
     THEN [success |-> TRUE, data |-> ZodOutput(schema, v)]
     ELSE [success |-> FALSE, error |-> ZodError(issues)]

(***************************************************************************)
(* lib/env.ts and types/strapi.ts                                          *)
(***************************************************************************)
\* an environment schema that takes any string for the base URL
envSchemaAnyUrl ==
  ZObject([NODE_ENV |-> ZEnum({"development", "test", "production"}),
           NEXT_PUBLIC_STRAPI_URL |-> ZString("none"),
           STRAPI_API_TOKEN |-> ZOptional(ZString("none"))])

envSchema ==
  ZObject([NODE_ENV |-> ZEnum({"development", "test", "production"}),
           NEXT_PUBLIC_STRAPI_URL |-> ZString("url"),
           STRAPI_API_TOKEN |-> ZOptional(ZString("none"))])

ContentIdSchema == ZString("uuid")

articleSchema ==
  ZObject([id |-> ContentIdSchema,
           attributes |-> ZObject([title |-> ZString("none"),
                                   content |-> ZString("none"),
                                   slug |-> ZString("none"),
                                   publishedAt |-> ZString("datetime"),
                                   createdAt |-> ZString("datetime"),
                                   updatedAt |-> ZString("datetime")])])

\* a collection schema that leaves meta unchecked
strapiCollectionSchemaAnyMeta(itemSchema) ==
  ZObject([data |-> ZArray(itemSchema), meta |-> ZUnknown])

strapiCollectionSchema(itemSchema) ==
  ZObject([data |-> ZArray(itemSchema),
           meta |-> ZObject([pagination |->
                      ZObject([page |-> ZNumber,
                               pageSize |-> ZNumber,
                               pageCount |-> ZNumber,
                               total |-> ZNumber])])])

strapiSingleSchema(itemSchema) ==
  ZObject([data |-> itemSchema, meta |-> ZObject(EmptyObject)])

(***************************************************************************)
(* The process environments a process can be started in: each variable is  *)
(* absent or holds a string.                                               *)
(***************************************************************************)
EnvChoices ==
  [NODE_ENV : {Undefined, JStr("production"), JStr("staging")},
   NEXT_PUBLIC_STRAPI_URL : {Undefined, JStr(CmsUrl), JStr(LocalUrl), JStr("not a url")},
   STRAPI_API_TOKEN : {Undefined, JStr(""), JStr("s3cr3t")},
   NEXT_PUBLIC_STRAPI_API_URL : {Undefined, JStr(LegacyUrl)}]

\* process.env: the object holding exactly the variables that are set
EnvObject(choice) ==
  JObj([key \in {x \in DOMAIN choice : choice[x].t # "undefined"} |-> choice[key]])

ProcessEnvs == {EnvObject(choice) : choice \in EnvChoices}

(***************************************************************************)
(* What the backend can answer.                                            *)
(***************************************************************************)
ValidAttributes ==
  [title |-> JStr("Hi"), content |-> JStr("Body"), slug |-> JStr("hi"),
   publishedAt |-> JStr(Stamp1), createdAt |-> JStr(Stamp1), updatedAt |-> JStr(Stamp1)]

ValidArticle == JObj([id |-> JStr(Uuid1), attributes |-> JObj(ValidAttributes)])

\* {"id":"not-a-uuid"}
IdOnlyArticle == JObj([id |-> JStr("not-a-uuid")])

\* a field of the wrong type and a field missing
WrongTypeArticle ==
  JObj([id |-> JStr(Uuid1),
        attributes |-> JObj([title |-> JNum(7), content |-> JStr("Body"),
                             publishedAt |-> JStr(Stamp1), createdAt |-> JStr(Stamp1),
                             updatedAt |-> JStr(Stamp1)])])

\* a valid article with fields the schema does not declare
ExtraFieldArticle ==
  JObj([id |-> JStr(Uuid1),
        attributes |-> JObj(ObjectSpread(ValidAttributes, [locale |-> JStr("en")])),
        documentId |-> JStr("a1")])

Items == {ValidArticle, IdOnlyArticle, WrongTypeArticle, ExtraFieldArticle}

Pagination(page, pageSize, pageCount, total) ==
  JObj([pagination |-> JObj([page |-> JNum(page), pageSize |-> JNum(pageSize),
                             pageCount |-> JNum(pageCount), total |-> JNum(total)])])

\* pagination whose counts came as text
TextPagination ==
  JObj([pagination |-> JObj([page |-> JStr("1"), pageSize |-> JStr("25"),
                             pageCount |-> JStr("1"), total |-> JStr("1")])])

Paginations == {Pagination(1, 25, 1, 1), Pagination(3, 25, 9, 0), TextPagination}

ItemLists == UNION {[1..n -> Items] : n \in 0..MaxItems}

SingleBodies ==
  {JObj([data |-> item, meta |-> JObj(EmptyObject)]) : item \in Items}
    \cup {JObj([data |-> ValidArticle, meta |-> Pagination(1, 25, 1, 1)])}

CollectionBodies ==
  {JObj([data |-> JArr(items), meta |-> meta]) : items \in ItemLists, meta \in Paginations}

JsonDocuments == SingleBodies \cup CollectionBodies

\* a response body is text: a JSON document, or text that is no JSON
JsonText(doc) == [t |-> "text", json |-> doc]
GarbageText == [t |-> "text", garbage |-> "<html>502 Bad Gateway</html>"]
ErrorDocument == JObj([error |-> JObj([message |-> JStr("Not Found")])])

Response(status, statusText, body) ==
  [t |-> "response", status |-> status, statusText |-> statusText, body |-> body]

\* Response.ok of the Fetch API
ResponseOk(response) == response.status >= 200 /\ response.status <= 299

Responses ==
  {Response(200, "OK", JsonText(doc)) : doc \in JsonDocuments}
    \cup {Response(200, "OK", GarbageText)}
    \cup {Response(st[1], st[2], body) :
            st \in {<<404, "Not Found">>, <<500, "Internal Server Error">>},
            body \in {GarbageText, JsonText(ErrorDocument)}}

\* the rejection of fetch() when no response is obtained
NetworkErrors ==
  {[name |-> "TypeError", message |-> <<"fetch failed">>, cause |-> code] :
     code \in {"ECONNREFUSED", "ETIMEDOUT"}}

\* Response.json(): the parsed document, or a SyntaxError
JsonSyntaxError == [name |-> "SyntaxError", message |-> <<"Unexpected token < in JSON">>]

ResponseJson(response) ==
  IF "json" \in DOMAIN response.body
  THEN [ok |-> TRUE, value |-> response.body.json]
  ELSE [ok |-> FALSE, error |-> JsonSyntaxError]

(***************************************************************************)
(* The inputs callers pass.                                                *)
(***************************************************************************)
Paths == {"/articles?populate=*", "/contact-submissions", "articles"}

\* the schema argument of fetchFromStrapi, by name
SchemaNames == {"collection", "single", "unknown"}

SchemaOf(name) ==
  CASE name = "collection" -> strapiCollectionSchema(articleSchema)
    [] name = "single" -> strapiSingleSchema(articleSchema)
    [] name = "unknown" -> ZUnknown

\* the RequestInit argument: absent keys are absent from the map
NoOptions == [k \in {} |-> Undefined]
PostOptions == [method |-> "POST", body |-> "{\"data\":{}}"]
HeaderOptions == [headers |-> ("X-Request-Id" :> "r-1")]
OptionSets == {NoOptions, PostOptions, HeaderOptions}

(***************************************************************************)
(* Errors, outcomes and diagnostics.                                       *)
(***************************************************************************)
\* class StrapiError extends Error: name, message, status, details
\* (a template literal is kept as the sequence of its parts)
StrapiError(message, status, details) ==
  [name |-> "StrapiError", message |-> message, status |-> status, details |-> details]

\* new Error(message)
PlainError(message) == [name |-> "Error", message |-> message]

Returned(value) == [t |-> "returned", value |-> value]
Raised(error) == [t |-> "raised", error |-> error]

\* console.error(text) and console.error(text, error)
ConsoleError(text, error) == [level |-> "error", text |-> text, error |-> error]

(***************************************************************************)
(* One call of a fetch operation: its arguments, the requests it issued,   *)
(* what it awaits, and its outcome.  steps records the statements the call *)
(* has executed, in order.                                                 *)
(***************************************************************************)
IdleCall ==
  [pc |-> "idle", fn |-> "none", path |-> "", schema |-> "none", options |-> NoOptions,
   requests |-> <<>>, response |-> Undefined, rejection |-> Undefined,
   rawData |-> Undefined, outcome |-> Undefined, steps |-> <<>>, log |-> <<>>]

Request(url, init) == [t |-> "request", url |-> url, init |-> init]

NoHeaders == [k \in {} |-> ""]
ContentTypeJson == ("Content-Type" :> "application/json")

\* the headers of a RequestInit, none when it has no headers key
HeadersOf(init) == IF "headers" \in DOMAIN init THEN init.headers ELSE NoHeaders

\* a call ends: return value / throw error
Finish(c, outcome) ==
  [c EXCEPT !.pc = "done", !.outcome = outcome,
            !.steps = Append(@, IF outcome.t = "returned" THEN "return" ELSE "throw")]

(***************************************************************************)
(* lib/strapi.ts: fetchFromStrapi                                          *)
(***************************************************************************)
\* ...(env.STRAPI_API_TOKEN && { Authorization: `Bearer ${env.STRAPI_API_TOKEN}` })
AuthorizationHeader(config) ==
  LET token == Get(config, "STRAPI_API_TOKEN")
  IN IF Truthy(token) THEN ("Authorization" :> ("Bearer " \o token.s)) ELSE NoHeaders

\* the second argument of fetch(): { headers: {...}, ...options }
StrapiRequestInit(config, options) ==
  ObjectSpread(
    [headers |-> ObjectSpread(ObjectSpread(ContentTypeJson, AuthorizationHeader(config)),
                              HeadersOf(options))],
    options)

\* a URL built without the API prefix
StrapiUrlNoPrefix(config, path) == Get(config, "NEXT_PUBLIC_STRAPI_URL").s \o path

\* `${env.NEXT_PUBLIC_STRAPI_URL}/api${path}`
StrapiUrl(config, path) == Get(config, "NEXT_PUBLIC_STRAPI_URL").s \o "/api" \o path

\* from the call to the first await: the request is issued
FetchFromStrapiStart(config, path, schema, options) ==
  [IdleCall EXCEPT !.pc = "awaitFetch", !.fn = "fetchFromStrapi", !.path = path,
                   !.schema = schema, !.options = options,
                   !.requests = <<Request(StrapiUrl(config, path),
                                          StrapiRequestInit(config, options))>>,
                   !.steps = <<"request">>]

\* fetch() rejected: nothing catches it
FetchFromStrapiOnRejected(c, error) ==
  Finish([c EXCEPT !.rejection = error], Raised(error))

\* a status check that sends the request once more before it gives up
FetchFromStrapiOnResponseRetrying(c, response) ==
  LET got == [c EXCEPT !.response = response, !.steps = Append(@, "status")]
  IN IF ~ResponseOk(response)
     THEN IF Len(c.requests) < 2
          THEN [c EXCEPT !.requests = Append(@, @[1]), !.steps = Append(@, "request")]
          ELSE Finish(got, Raised(StrapiError(<<"Strapi API error: ", response.statusText>>,
                                              response.status, Undefined)))
     ELSE [got EXCEPT !.pc = "awaitJson", !.steps = Append(@, "json")]

\* fetch() resolved: the status check, then response.json() is called
FetchFromStrapiOnResponse(c, response) ==
  LET got == [c EXCEPT !.response = response, !.steps = Append(@, "status")]
  IN IF ~ResponseOk(response)
     THEN Finish(got, Raised(StrapiError(<<"Strapi API error: ", response.statusText>>,
                                         response.status, Undefined)))
     ELSE [got EXCEPT !.pc = "awaitJson", !.steps = Append(@, "json")]

\* response.json() rejected: the await is outside the try block
FetchFromStrapiOnJsonRejected(c, error) == Finish(c, Raised(error))

\* a validation step that falls back to the unvalidated document
FetchFromStrapiValidateLenient(schema, rawData) ==
  LET parsed == ZodParse(schema, rawData)
  IN IF parsed.success THEN Returned(parsed.data) ELSE Returned(rawData)

\* try { return schema.parse(rawData) } catch (error) { throw new StrapiError(...) }
FetchFromStrapiValidate(schema, rawData) ==
  LET parsed == ZodParse(schema, rawData)
  IN IF parsed.success
     THEN Returned(parsed.data)
     ELSE Raised(StrapiError(<<"Invalid data received from Strapi">>, 500, parsed.error))

\* a client that stops validating once some call has come through
FetchFromStrapiOnJsonValidatingOnce(c, rawData) ==
  IF \E i \in DOMAIN slots : slots[i].pc = "done" /\ slots[i].fn = "fetchFromStrapi"
  THEN Finish([c EXCEPT !.rawData = rawData], Returned(rawData))
  ELSE Finish([c EXCEPT !.rawData = rawData, !.steps = Append(@, "validate")],
              FetchFromStrapiValidate(SchemaOf(c.schema), rawData))

\* response.json() resolved: rawData is validated
FetchFromStrapiOnJson(c, rawData) ==
  Finish([c EXCEPT !.rawData = rawData, !.steps = Append(@, "validate")],
         FetchFromStrapiValidate(SchemaOf(c.schema), rawData))

(***************************************************************************)
(* frontend/lib/strapi.ts: fetchAPI                                        *)
(***************************************************************************)
\* process.env.NEXT_PUBLIC_STRAPI_API_URL || 'http://localhost:1337'
StrapiUrlConstant(environment) ==
  LET value == Get(environment, "NEXT_PUBLIC_STRAPI_API_URL")
  IN IF Truthy(value) THEN value ELSE JStr(LocalUrl)

\* { headers: { 'Content-Type': 'application/json' }, ...options }
mergedOptions(options) == ObjectSpread([headers |-> ContentTypeJson], options)

\* `${STRAPI_URL}/api${path}`
requestUrl(base, path) == base.s \o "/api" \o path

FetchAPIStart(base, path, options) ==
  [IdleCall EXCEPT !.pc = "awaitFetch", !.fn = "fetchAPI", !.path = path,
                   !.options = options,
                   !.requests = <<Request(requestUrl(base, path), mergedOptions(options))>>,
                   !.steps = <<"request">>]

\* a catch block that throws a new error in place of the one it caught
FetchAPICatchWrapping(c, error) ==
  Finish([c EXCEPT !.log = Append(@, ConsoleError(<<"Strapi API fetch error:">>, error)),
                   !.steps = Append(@, "log")],
         Raised(PlainError(<<"Strapi API fetch error">>)))

\* catch (error) { console.error('Strapi API fetch error:', error); throw error; }
FetchAPICatch(c, error) ==
  Finish([c EXCEPT !.log = Append(@, ConsoleError(<<"Strapi API fetch error:">>, error)),
                   !.steps = Append(@, "log")],
         Raised(error))

FetchAPIOnRejected(c, error) == FetchAPICatch([c EXCEPT !.rejection = error], error)

\* a fetchAPI that reads the body before it looks at the status
FetchAPIOnResponseReadingBody(c, response) ==
  [c EXCEPT !.response = response, !.pc = "awaitJson", !.steps = Append(@, "json")]

\* the status check; the throw inside try is caught by the catch of the same function
FetchAPIOnResponse(c, response) ==
  LET got == [c EXCEPT !.response = response, !.steps = Append(@, "status")]
  IN IF ~ResponseOk(response)
     THEN FetchAPICatch(
            [got EXCEPT !.log = Append(@, ConsoleError(<<"Strapi API error: ",
                                                          ToString(response.status), " ",
                                                          response.statusText>>, Undefined)),
                        !.steps = Append(@, "log")],
            PlainError(<<"Strapi API error: ", ToString(response.status)>>))
     ELSE [got EXCEPT !.pc = "awaitJson", !.steps = Append(@, "json")]

FetchAPIOnJsonRejected(c, error) == FetchAPICatch(c, error)

\* return await response.json()
FetchAPIOnJson(c, rawData) == Finish([c EXCEPT !.rawData = rawData], Returned(rawData))

(***************************************************************************)
(* The process.                                                            *)
(***************************************************************************)
SlotIds == 1..MaxInFlight

Init ==
  /\ processEnv \in ProcessEnvs
  /\ env = [state |-> "unloaded"]
  /\ STRAPI_URL = Undefined
  /\ call = IdleCall
  /\ slots = [i \in SlotIds |-> IdleCall]
  /\ answers = [i \in SlotIds |-> Undefined]

\* lib/env.ts is evaluated: export const env = envSchema.parse(process.env)
LoadEnv ==
  /\ env.state = "unloaded"
  /\ LET parsed == ZodParse(envSchema, processEnv)
     IN env' = IF parsed.success
               THEN [state |-> "loaded", value |-> parsed.data]
               ELSE [state |-> "failed", error |-> parsed.error]
  /\ UNCHANGED <<processEnv, STRAPI_URL, call, slots, answers>>

\* frontend/lib/strapi.ts is evaluated: const STRAPI_URL = ...
LoadStrapiUrl ==
  /\ STRAPI_URL = Undefined
  /\ STRAPI_URL' = StrapiUrlConstant(processEnv)
  /\ UNCHANGED <<processEnv, env, call, slots, answers>>

\* a call that also writes the base URL of the configuration
CallFetchFromStrapiRebasing ==
  /\ call.pc = "idle"
  /\ env.state = "loaded"
  /\ \E path \in Paths, schema \in SchemaNames, options \in OptionSets :
       call' = FetchFromStrapiStart(env.value, path, schema, options)
  /\ env' = [env EXCEPT !.value =
               JObj(ObjectSpread(@.f, [NEXT_PUBLIC_STRAPI_URL |-> JStr(LocalUrl)]))]
  /\ UNCHANGED <<processEnv, STRAPI_URL, slots, answers>>

\* a caller calls fetchFromStrapi(path, schema, options); the module that
\* defines it imports env, so it exists only once env is loaded
CallFetchFromStrapi ==
  /\ call.pc = "idle"
  /\ env.state = "loaded"
  /\ \E path \in Paths, schema \in SchemaNames, options \in OptionSets :
       call' = FetchFromStrapiStart(env.value, path, schema, options)
  /\ UNCHANGED <<processEnv, env, STRAPI_URL, slots, answers>>

\* a caller calls fetchAPI(path, options)
CallFetchAPI ==
  /\ call.pc = "idle"
  /\ STRAPI_URL # Undefined
  /\ \E path \in Paths, options \in OptionSets :
       call' = FetchAPIStart(STRAPI_URL, path, options)
  /\ UNCHANGED <<processEnv, env, STRAPI_URL, slots, answers>>

\* the backend answers the request
FetchResolves ==
  /\ call.pc = "awaitFetch"
  /\ \E response \in Responses :
       call' = IF call.fn = "fetchAPI"
               THEN FetchAPIOnResponse(call, response)
               ELSE FetchFromStrapiOnResponse(call, response)
  /\ UNCHANGED <<processEnv, env, STRAPI_URL, slots, answers>>

\* no response is obtained
FetchRejects ==
  /\ call.pc = "awaitFetch"
  /\ \E error \in NetworkErrors :
       call' = IF call.fn = "fetchAPI"
               THEN FetchAPIOnRejected(call, error)
               ELSE FetchFromStrapiOnRejected(call, error)
  /\ UNCHANGED <<processEnv, env, STRAPI_URL, slots, answers>>

\* the body is read and is JSON
JsonResolves ==
  /\ call.pc = "awaitJson"
  /\ ResponseJson(call.response).ok
  /\ call' = IF call.fn = "fetchAPI"
             THEN FetchAPIOnJson(call, ResponseJson(call.response).value)
             ELSE FetchFromStrapiOnJson(call, ResponseJson(call.response).value)
  /\ UNCHANGED <<processEnv, env, STRAPI_URL, slots, answers>>

\* the body is read and is no JSON
JsonRejects ==
  /\ call.pc = "awaitJson"
  /\ ~ResponseJson(call.response).ok
  /\ call' = IF call.fn = "fetchAPI"
             THEN FetchAPIOnJsonRejected(call, ResponseJson(call.response).error)
             ELSE FetchFromStrapiOnJsonRejected(call, ResponseJson(call.response).error)
  /\ UNCHANGED <<processEnv, env, STRAPI_URL, slots, answers>>

\* the caller has taken the outcome and goes on
CallerResumes ==
  /\ call.pc = "done"
  /\ call' = IdleCall
  /\ UNCHANGED <<processEnv, env, STRAPI_URL, slots, answers>>

Next ==
  \/ LoadEnv
  \/ LoadStrapiUrl
  \/ CallFetchFromStrapi
  \/ CallFetchAPI
  \/ FetchResolves
  \/ FetchRejects
  \/ JsonResolves
  \/ JsonRejects
  \/ CallerResumes

Spec == Init /\ [][Next]_vars

(***************************************************************************)
(* Several calls in flight.  response and rawData are constants local to   *)
(* one invocation, so a step of the call in slot i changes slot i alone.   *)
(* answers[i] is what the network delivered for the request of slot i.     *)
(***************************************************************************)
\* process environments, answers and arguments of the concurrent runs
ConcurrentEnvs ==
  {EnvObject([NODE_ENV |-> JStr("production"), NEXT_PUBLIC_STRAPI_URL |-> JStr(CmsUrl),
              STRAPI_API_TOKEN |-> token, NEXT_PUBLIC_STRAPI_API_URL |-> Undefined]) :
     token \in {Undefined, JStr("s3cr3t")}}

ConcurrentResponses ==
  {Response(200, "OK", JsonText(JObj([data |-> item, meta |-> JObj(EmptyObject)]))) :
     item \in {ValidArticle, IdOnlyArticle}}
    \cup {Response(200, "OK", GarbageText), Response(404, "Not Found", GarbageText)}

ConcurrentSchemas == {"single", "unknown"}

ReadPath == "/articles?populate=*"

\* locals written by a step that went wrong: the response is kept in a
\* variable all invocations share
ResumeSharingResponse(i, next) ==
  [j \in DOMAIN slots |->
     IF j = i THEN next
     ELSE IF slots[j].pc = "awaitJson" /\ next.response # Undefined
     THEN [slots[j] EXCEPT !.response = next.response]
     ELSE slots[j]]

\* the invocation in slot i goes on to next; the other invocations keep theirs
Resume(i, next) == [slots EXCEPT ![i] = next]

InitConcurrent ==
  /\ processEnv \in ConcurrentEnvs
  /\ env = [state |-> "unloaded"]
  /\ STRAPI_URL = Undefined
  /\ call = IdleCall
  /\ slots = [i \in SlotIds |-> IdleCall]
  /\ answers = [i \in SlotIds |-> Undefined]

SlotCallsFetchFromStrapi ==
  /\ env.state = "loaded"
  /\ \E i \in SlotIds, schema \in ConcurrentSchemas :
       /\ slots[i].pc = "idle"
       /\ slots' = Resume(i, FetchFromStrapiStart(env.value, ReadPath, schema, NoOptions))
  /\ UNCHANGED <<processEnv, env, STRAPI_URL, call, answers>>

SlotCallsFetchAPI ==
  /\ STRAPI_URL # Undefined
  /\ \E i \in SlotIds :
       /\ slots[i].pc = "idle"
       /\ slots' = Resume(i, FetchAPIStart(STRAPI_URL, ReadPath, NoOptions))
  /\ UNCHANGED <<processEnv, env, STRAPI_URL, call, answers>>

SlotFetchResolves ==
  /\ \E i \in SlotIds, response \in ConcurrentResponses :
       /\ slots[i].pc = "awaitFetch"
       /\ answers' = [answers EXCEPT ![i] = response]
       /\ slots' = Resume(i, IF slots[i].fn = "fetchAPI"
                             THEN FetchAPIOnResponse(slots[i], response)
                             ELSE FetchFromStrapiOnResponse(slots[i], response))
  /\ UNCHANGED <<processEnv, env, STRAPI_URL, call>>

SlotFetchRejects ==
  /\ \E i \in SlotIds, error \in NetworkErrors :
       /\ slots[i].pc = "awaitFetch"
       /\ answers' = [answers EXCEPT ![i] = error]
       /\ slots' = Resume(i, IF slots[i].fn = "fetchAPI"
                             THEN FetchAPIOnRejected(slots[i], error)
                             ELSE FetchFromStrapiOnRejected(slots[i], error))
  /\ UNCHANGED <<processEnv, env, STRAPI_URL, call>>

SlotJsonResolves ==
  /\ \E i \in SlotIds :
       /\ slots[i].pc = "awaitJson"
       /\ ResponseJson(slots[i].response).ok
       /\ slots' = Resume(i, IF slots[i].fn = "fetchAPI"
                             THEN FetchAPIOnJson(slots[i], ResponseJson(slots[i].response).value)
                             ELSE FetchFromStrapiOnJson(slots[i],
                                                        ResponseJson(slots[i].response).value))
  /\ UNCHANGED <<processEnv, env, STRAPI_URL, call, answers>>

SlotJsonRejects ==
  /\ \E i \in SlotIds :
       /\ slots[i].pc = "awaitJson"
       /\ ~ResponseJson(slots[i].response).ok
       /\ slots' = Resume(i, IF slots[i].fn = "fetchAPI"
                             THEN FetchAPIOnJsonRejected(slots[i],
                                                         ResponseJson(slots[i].response).error)
                             ELSE FetchFromStrapiOnJsonRejected(slots[i],
                                                         ResponseJson(slots[i].response).error))
  /\ UNCHANGED <<processEnv, env, STRAPI_URL, call, answers>>

\* the caller of slot i has taken the outcome
SlotCallerResumes ==
  /\ \E i \in SlotIds :
       /\ slots[i].pc = "done"
       /\ slots' = Resume(i, IdleCall)
       /\ answers' = [answers EXCEPT ![i] = Undefined]
  /\ UNCHANGED <<processEnv, env, STRAPI_URL, call>>

NextConcurrent ==
  \/ LoadEnv
  \/ LoadStrapiUrl
  \/ SlotCallsFetchFromStrapi
  \/ SlotCallsFetchAPI
  \/ SlotFetchResolves
  \/ SlotFetchRejects
  \/ SlotJsonResolves
  \/ SlotJsonRejects
  \/ SlotCallerResumes

SpecConcurrent == InitConcurrent /\ [][NextConcurrent]_vars

(***************************************************************************)
(* Notions the properties are stated with.  They are written from what the *)
(* words mean, not from the validator: Matches is "B has the shape S".     *)
(***************************************************************************)
RangeOf(seq) == {seq[i] : i \in DOMAIN seq}

RECURSIVE Matches(_, _)
Matches(schema, v) ==
  CASE schema.k = "unknown" -> TRUE
    [] schema.k = "optional" -> v.t = "undefined" \/ Matches(schema.inner, v)
    [] schema.k = "string" ->
         /\ v.t = "string"
         /\ schema.check = "uuid" => IsUuid(v.s)
         /\ schema.check = "datetime" => IsDatetime(v.s)
         /\ schema.check = "url" => IsUrl(v.s)
    [] schema.k = "number" -> v.t = "number"
    [] schema.k = "enum" -> v.t = "string" /\ v.s \in schema.values
    [] schema.k = "object" ->
         /\ v.t = "object"
         /\ \A key \in DOMAIN schema.shape : Matches(schema.shape[key], Get(v, key))
    [] schema.k = "array" ->
         /\ v.t = "array"
         /\ \A i \in DOMAIN v.e : Matches(schema.item, v.e[i])

\* the position of an array element from the path segment that names it
IndexOf(segment) == CHOOSE i \in 1..(MaxItems + 1) : ToString(i - 1) = segment

\* the part of a schema, and of a value, a field path leads to
RECURSIVE SchemaAt(_, _)
SchemaAt(schema, path) ==
  IF path = <<>> THEN schema
  ELSE IF schema.k = "object" THEN SchemaAt(schema.shape[Head(path)], Tail(path))
  ELSE IF schema.k = "array" THEN SchemaAt(schema.item, Tail(path))
  ELSE SchemaAt(schema.inner, path)

RECURSIVE ValueAt(_, _)
ValueAt(v, path) ==
  IF path = <<>> THEN v
  ELSE IF v.t = "object" THEN ValueAt(Get(v, Head(path)), Tail(path))
  ELSE IF v.t = "array" THEN ValueAt(v.e[IndexOf(Head(path))], Tail(path))
  ELSE Undefined

\* out is b cut down to the fields the schema declares, each with b's value
RECURSIVE DeclaredEqual(_, _, _)
DeclaredEqual(schema, b, out) ==
  CASE schema.k = "optional" ->
         IF b.t = "undefined" THEN out = b ELSE DeclaredEqual(schema.inner, b, out)
    [] schema.k = "object" ->
         /\ out.t = "object"
         /\ DOMAIN out.f = (DOMAIN schema.shape) \cap (DOMAIN b.f)
         /\ \A key \in DOMAIN out.f : DeclaredEqual(schema.shape[key], b.f[key], out.f[key])
    [] schema.k = "array" ->
         /\ out.t = "array"
         /\ DOMAIN out.e = DOMAIN b.e
         /\ \A i \in DOMAIN out.e : DeclaredEqual(schema.item, b.e[i], out.e[i])
    [] OTHER -> out = b

CallDone == call.pc = "done"
CallReturned == CallDone /\ call.outcome.t = "returned"
CallRaised == CallDone /\ call.outcome.t = "raised"

\* a response with a successful status arrived and its body was JSON
GotDocument == call.rawData.t # "undefined"

\* a response arrived and its status is no success
GotErrorStatus == call.response.t = "response" /\ ~ResponseOk(call.response)

(***************************************************************************)
(* C1: a value a fetch operation returns has passed a schema match: the    *)
(* call ran the validation step and the document has the schema's shape.   *)
(***************************************************************************)
C1_ReturnedValueWasValidated ==
  CallReturned =>
    /\ "validate" \in RangeOf(call.steps)
    /\ call.schema \in SchemaNames
    /\ Matches(SchemaOf(call.schema), call.rawData)

(***************************************************************************)
(* C2: when the document of a successful response violates the schema,     *)
(* fetchFromStrapi raises the validation error, the error holds the        *)
(* validation issues, each naming a field that does not have the shape the *)
(* schema requires, and no value is returned.                              *)
(***************************************************************************)
C2_SchemaViolationRaisesValidationError ==
  ( /\ CallDone
    /\ call.fn = "fetchFromStrapi"
    /\ GotDocument
    /\ ~Matches(SchemaOf(call.schema), call.rawData) )
  =>
    /\ call.outcome.t = "raised"
    /\ call.outcome.error.name = "StrapiError"
    /\ "issues" \in DOMAIN call.outcome.error.details
    /\ call.outcome.error.details.issues # {}
    /\ \A issue \in call.outcome.error.details.issues :
         ~Matches(SchemaAt(SchemaOf(call.schema), issue.path),
                  ValueAt(call.rawData, issue.path))

\* HTTP 200 with {"data":{"id":"not-a-uuid"}} against the single-article schema
C2_Witness ==
  /\ CallRaised
  /\ call.fn = "fetchFromStrapi"
  /\ call.schema = "single"
  /\ GotDocument
  /\ call.response.status = 200
  /\ call.rawData = JObj([data |-> IdOnlyArticle, meta |-> JObj(EmptyObject)])
  /\ Issue("invalid_string", <<"data", "id">>) \in call.outcome.error.details.issues

(***************************************************************************)
(* C3: for a response with a non-success status the call raises an error   *)
(* that carries the status code (its status is the code) and the status    *)
(* text, and returns no value.                                             *)
(***************************************************************************)
C3_ErrorStatusCarriesCodeAndText ==
  (CallDone /\ GotErrorStatus) =>
    /\ call.outcome.t = "raised"
    /\ "status" \in DOMAIN call.outcome.error
    /\ call.outcome.error.status = call.response.status
    /\ call.response.statusText \in RangeOf(call.outcome.error.message)

(***************************************************************************)
(* C4: the failures of fetchFromStrapi are told apart by the kind of the   *)
(* raised error (its class name and its status): a non-success status, a   *)
(* schema violation on a successful status and a network failure never    *)
(* raise errors of the same kind.                                          *)
(***************************************************************************)
FailureCause(c) ==
  CASE "name" \in DOMAIN c.rejection -> "transport"
    [] c.response.t = "response" /\ ~ResponseOk(c.response) -> "status"
    [] c.rawData.t # "undefined" -> "validation"
    [] OTHER -> "body"

ErrorKind(error) ==
  [name |-> error.name, status |-> IF "status" \in DOMAIN error THEN error.status ELSE 0]

\* the call as it stood when its request had just been issued
AsStarted(c) ==
  [c EXCEPT !.pc = "awaitFetch", !.response = Undefined, !.rejection = Undefined,
            !.rawData = Undefined, !.outcome = Undefined, !.steps = <<"request">>,
            !.log = <<>>]

\* fetchFromStrapi run to its end on a response
FetchFromStrapiSettle(started, response) ==
  LET checked == FetchFromStrapiOnResponse(started, response)
      body == ResponseJson(response)
  IN IF checked.pc = "done" THEN checked
     ELSE IF body.ok THEN FetchFromStrapiOnJson(checked, body.value)
     ELSE FetchFromStrapiOnJsonRejected(checked, body.error)

\* every way the same call of fetchFromStrapi can end
FetchFromStrapiEndings(started) ==
  {FetchFromStrapiSettle(started, response) : response \in Responses}
    \cup {FetchFromStrapiOnRejected(started, error) : error \in NetworkErrors}

\* C4: failures of fetchFromStrapi with different causes raise errors of
\* different kinds
C4_FailureKindsDistinct ==
  (CallRaised /\ call.fn = "fetchFromStrapi" /\ FailureCause(call) # "body") =>
    \A other \in FetchFromStrapiEndings(AsStarted(call)) :
      ( /\ other.outcome.t = "raised"
        /\ FailureCause(other) \notin {"body", FailureCause(call)} )
      => ErrorKind(other.outcome.error) # ErrorKind(call.outcome.error)

(***************************************************************************)
(* C5: when the body of a successful response is no JSON, fetchFromStrapi  *)
(* raises the error kind it raises for a schema violation (StrapiError,    *)
(* status 500, with the failure detail) and returns no value.              *)
(***************************************************************************)
C5_MalformedBodyRaisesValidationError ==
  ( /\ CallDone
    /\ call.fn = "fetchFromStrapi"
    /\ call.response.t = "response"
    /\ ResponseOk(call.response)
    /\ ~ResponseJson(call.response).ok )
  =>
    /\ call.outcome.t = "raised"
    /\ ErrorKind(call.outcome.error) = [name |-> "StrapiError", status |-> 500]
    /\ call.outcome.error.details # Undefined

(***************************************************************************)
(* C6: a call issues exactly one HTTP request, whatever its outcome: one   *)
(* request from the moment it is invoked, and no further one afterwards.   *)
(***************************************************************************)
C6_OneRequestPerInvocation ==
  Len(call.requests) = IF call.pc = "idle" THEN 0 ELSE 1

\* a call that failed on a non-success status has issued one request
C6_Witness ==
  /\ CallRaised
  /\ GotErrorStatus
  /\ Len(call.requests) = 1

(***************************************************************************)
(* C7: every HTTP request is preceded by a successful configuration load,  *)
(* and in a process whose environment lacks NEXT_PUBLIC_STRAPI_URL the     *)
(* configuration never loads and no request is issued.                     *)
(***************************************************************************)
C7_RequestsOnlyAfterConfigurationLoaded ==
  /\ call.requests # <<>> => env.state = "loaded"
  /\ "NEXT_PUBLIC_STRAPI_URL" \notin DOMAIN processEnv.f =>
       /\ env.state \in {"unloaded", "failed"}
       /\ call.requests = <<>>

(***************************************************************************)
(* C8: the request of every call has Content-Type: application/json, and   *)
(* has Authorization: Bearer <token> exactly when a (non-empty) access     *)
(* token is configured.                                                    *)
(***************************************************************************)
C8_RequestHeaders ==
  call.pc # "idle" =>
    LET headers == HeadersOf(call.requests[1].init)
        token == Get(processEnv, "STRAPI_API_TOKEN")
    IN /\ "Content-Type" \in DOMAIN headers
       /\ headers["Content-Type"] = "application/json"
       /\ Truthy(token) <=> "Authorization" \in DOMAIN headers
       /\ Truthy(token) => headers["Authorization"] = "Bearer " \o token.s

(***************************************************************************)
(* C9, as claimed: when the schema accepts the document of a successful    *)
(* response, fetchFromStrapi returns a value equal to the document.        *)
(***************************************************************************)
AcceptedDocument ==
  /\ CallDone
  /\ call.fn = "fetchFromStrapi"
  /\ GotDocument
  /\ Matches(SchemaOf(call.schema), call.rawData)

\* C9, as claimed: an accepted document is returned equal to itself
C9_ReturnsDocumentUnchanged ==
  AcceptedDocument => (call.outcome.t = "returned" /\ call.outcome.value = call.rawData)

(***************************************************************************)
(* C9, amended: when the schema accepts the document, fetchFromStrapi      *)
(* returns the document cut down to the fields the schema declares: every  *)
(* declared field with the value it has in the document, every undeclared  *)
(* field of an object the schema describes dropped.                        *)
(***************************************************************************)
C9_ReturnsDeclaredFields ==
  AcceptedDocument =>
    /\ call.outcome.t = "returned"
    /\ DeclaredEqual(SchemaOf(call.schema), call.rawData, call.outcome.value)

\* an accepted article with undeclared fields came back without them
C9_Witness ==
  /\ AcceptedDocument
  /\ call.schema = "single"
  /\ Get(call.rawData, "data") = ExtraFieldArticle
  /\ call.outcome.t = "returned"
  /\ Get(call.outcome.value, "data") = ValidArticle

(***************************************************************************)
(* C10: when no response is obtained, the call raises the very error the   *)
(* transport raised, and returns no value.                                 *)
(***************************************************************************)
C10_TransportErrorPropagatesUnmodified ==
  (CallDone /\ "name" \in DOMAIN call.rejection) => call.outcome = Raised(call.rejection)

\* fetchAPI caught a network failure and has ended
C10_Witness ==
  /\ CallDone
  /\ call.fn = "fetchAPI"
  /\ call.rejection \in NetworkErrors
  /\ call.log # <<>>

(***************************************************************************)
(* C11: every call that fails has written a diagnostic record, and wrote   *)
(* it before it raised its error.                                          *)
(***************************************************************************)
C11_DiagnosticBeforeError ==
  CallRaised =>
    /\ call.log # <<>>
    /\ \E i, j \in DOMAIN call.steps :
         i < j /\ call.steps[i] = "log" /\ call.steps[j] = "throw"

(***************************************************************************)
(* C12: loading the configuration succeeds exactly for the environments    *)
(* whose NODE_ENV is development, test or production, whose                *)
(* NEXT_PUBLIC_STRAPI_URL is a well-formed URL and whose STRAPI_API_TOKEN  *)
(* is a string or absent, and then the configuration holds exactly these   *)
(* values; for every other environment it fails with the validation error  *)
(* and there is no configuration.                                          *)
(***************************************************************************)
ConfigurationNames == {"NODE_ENV", "NEXT_PUBLIC_STRAPI_URL", "STRAPI_API_TOKEN"}

ValidEnvironment(environment) ==
  /\ Get(environment, "NODE_ENV").t = "string"
  /\ Get(environment, "NODE_ENV").s \in {"development", "test", "production"}
  /\ Get(environment, "NEXT_PUBLIC_STRAPI_URL").t = "string"
  /\ IsUrl(Get(environment, "NEXT_PUBLIC_STRAPI_URL").s)
  /\ Get(environment, "STRAPI_API_TOKEN").t \in {"string", "undefined"}

C12_ConfigurationLoad ==
  env.state # "unloaded" =>
    IF ValidEnvironment(processEnv)
    THEN /\ env.state = "loaded"
         /\ DOMAIN env.value.f = ConfigurationNames \cap DOMAIN processEnv.f
         /\ \A name \in ConfigurationNames : Get(env.value, name) = Get(processEnv, name)
    ELSE /\ env.state = "failed"
         /\ env.error.name = "ZodError"
         /\ env.error.issues # {}
         /\ "value" \notin DOMAIN env

\* a valid environment with a token and a variable the schema does not know
C12_Witness ==
  /\ env.state = "loaded"
  /\ Get(env.value, "STRAPI_API_TOKEN") = JStr("s3cr3t")
  /\ "NEXT_PUBLIC_STRAPI_API_URL" \in DOMAIN processEnv.f

(***************************************************************************)
(* C13: the URL of the request a call issues is the base URL the operation *)
(* is configured with, followed by /api, followed by the path as given.    *)
(***************************************************************************)
C13_RequestUrl ==
  call.pc # "idle" =>
    LET base == IF call.fn = "fetchAPI"
                THEN STRAPI_URL.s
                ELSE Get(env.value, "NEXT_PUBLIC_STRAPI_URL").s
    IN call.requests[1].url = base \o "/api" \o call.path

\* base URL http://localhost:1337 and path /articles?populate=*
C13_Witness ==
  /\ call.fn = "fetchFromStrapi"
  /\ Get(env.value, "NEXT_PUBLIC_STRAPI_URL").s = "http://localhost:1337"
  /\ call.path = "/articles?populate=*"
  /\ call.requests[1].url = "http://localhost:1337/api/articles?populate=*"

(***************************************************************************)
(* C14, as claimed: a returned collection envelope has consistent          *)
(* pagination: at most page * pageSize items, and pageCount the ceiling of *)
(* total / pageSize.                                                       *)
(***************************************************************************)
CollectionReturned ==
  CallReturned /\ call.fn = "fetchFromStrapi" /\ call.schema = "collection"

PaginationOf(envelope) == Get(Get(envelope, "meta"), "pagination")

PaginationFields == {"page", "pageSize", "pageCount", "total"}

Ceiling(a, b) == (a + b - 1) \div b

\* C14, as claimed: the pagination of a returned collection is consistent
C14_PaginationConsistent ==
  CollectionReturned =>
    LET p == PaginationOf(call.outcome.value)
    IN /\ Get(p, "pageSize").n > 0
       /\ Len(Get(call.outcome.value, "data").e) <= Get(p, "page").n * Get(p, "pageSize").n
       /\ Get(p, "pageCount").n = Ceiling(Get(p, "total").n, Get(p, "pageSize").n)

(***************************************************************************)
(* C14, amended: a returned collection envelope has pagination whose page, *)
(* pageSize, pageCount and total are numbers, the ones the backend sent;   *)
(* whether they agree with one another is not checked.                     *)
(***************************************************************************)
C14_PaginationIsNumbers ==
  CollectionReturned =>
    \A field \in PaginationFields :
      /\ Get(PaginationOf(call.outcome.value), field).t = "number"
      /\ Get(PaginationOf(call.outcome.value), field)
           = Get(PaginationOf(call.rawData), field)

\* a collection came back whose pageCount is not the ceiling of total / pageSize
C14_Witness ==
  /\ CollectionReturned
  /\ Get(call.outcome.value, "meta") = Pagination(3, 25, 9, 0)

(***************************************************************************)
(* C16: the configuration is built once and no step changes it afterwards: *)
(* once env is bound (or its load has failed) it stays as it is, and so    *)
(* does the STRAPI_URL constant, so every call sees the same base URL and  *)
(* the same token.                                                         *)
(***************************************************************************)
C16_ConfigurationImmutable ==
  [][ /\ env.state # "unloaded" => env' = env
      /\ STRAPI_URL # Undefined => STRAPI_URL' = STRAPI_URL
      /\ processEnv' = processEnv ]_vars

\* a call of fetchFromStrapi has ended after the configuration was built
C16_Witness ==
  /\ env.state = "loaded"
  /\ CallDone
  /\ call.fn = "fetchFromStrapi"

(***************************************************************************)
(* C18: the base URL of every request is the one of the loaded             *)
(* configuration: a request is issued only with the configuration loaded,  *)
(* and its URL starts with the validated NEXT_PUBLIC_STRAPI_URL.           *)
(***************************************************************************)
C18_BaseUrlFromConfiguration ==
  call.pc # "idle" =>
    /\ env.state = "loaded"
    /\ call.requests[1].url
         = Get(env.value, "NEXT_PUBLIC_STRAPI_URL").s \o "/api" \o call.path

(***************************************************************************)
(* C19: the steps of a call come in the order request, status check, body  *)
(* parse, validation, return or throw; the body is parsed only after the   *)
(* status check has passed; for a non-success status the body is never     *)
(* read and the error is the same whatever the body holds.                 *)
(***************************************************************************)
StepRank(step) ==
  CASE step = "request" -> 1
    [] step = "status" -> 2
    [] step = "json" -> 3
    [] step = "validate" -> 4
    [] step \in {"return", "throw"} -> 5
    [] OTHER -> 0

\* the status check of the operation the call runs
StatusCheck(c, response) ==
  IF c.fn = "fetchAPI"
  THEN FetchAPIOnResponse(c, response)
  ELSE FetchFromStrapiOnResponse(c, response)

C19_StepOrder ==
  /\ \A i, j \in DOMAIN call.steps :
       (i < j /\ call.steps[i] # "log" /\ call.steps[j] # "log")
         => StepRank(call.steps[i]) < StepRank(call.steps[j])
  /\ "json" \in RangeOf(call.steps) =>
       /\ "status" \in RangeOf(call.steps)
       /\ ResponseOk(call.response)
  /\ (CallDone /\ GotErrorStatus) =>
       /\ "json" \notin RangeOf(call.steps)
       /\ call.rawData = Undefined
       /\ \A body \in {GarbageText, JsonText(ErrorDocument), JsonText(ValidArticle)} :
            StatusCheck(AsStarted(call), [call.response EXCEPT !.body = body]).outcome
              = call.outcome

\* a non-success answer with a JSON body: the call has ended without reading it
C19_Witness ==
  /\ CallRaised
  /\ GotErrorStatus
  /\ call.response.body = JsonText(ErrorDocument)
  /\ call.rawData = Undefined

(***************************************************************************)
(* C15: with several calls in flight, in any interleaving, the outcome of  *)
(* each call is the outcome the same call has when it runs alone on the    *)
(* answer the network delivered to it.                                     *)
(***************************************************************************)
\* fetchAPI run to its end on a response
FetchAPISettle(started, response) ==
  LET checked == FetchAPIOnResponse(started, response)
      body == ResponseJson(response)
  IN IF checked.pc = "done" THEN checked
     ELSE IF body.ok THEN FetchAPIOnJson(checked, body.value)
     ELSE FetchAPIOnJsonRejected(checked, body.error)

\* the network answered with a response, not with a rejection
IsResponse(answer) == "status" \in DOMAIN answer

\* the call run alone, from its request to its end, on the given answer
RunAlone(c, answer) ==
  IF IsResponse(answer)
  THEN IF c.fn = "fetchAPI"
       THEN FetchAPISettle(AsStarted(c), answer)
       ELSE FetchFromStrapiSettle(AsStarted(c), answer)
  ELSE IF c.fn = "fetchAPI"
       THEN FetchAPIOnRejected(AsStarted(c), answer)
       ELSE FetchFromStrapiOnRejected(AsStarted(c), answer)

C15_OutcomeAsWhenAlone ==
  \A i \in SlotIds :
    slots[i].pc = "done" =>
      /\ slots[i].outcome = RunAlone(slots[i], answers[i]).outcome
      /\ slots[i].log = RunAlone(slots[i], answers[i]).log

\* two calls overlapped, got different answers, and both have ended
C15_Witness ==
  \E i, j \in SlotIds :
    /\ i # j
    /\ slots[i].pc = "done"
    /\ slots[j].pc = "done"
    /\ slots[i].steps # slots[j].steps
    /\ answers[i] # answers[j]
    /\ slots[i].outcome.t = "returned"
    /\ slots[j].outcome.t = "raised"

(***************************************************************************)
(* C17: the same read request issued twice, answered the same both times,  *)
(* ends the same both times: two equal values, or two failures of the same *)
(* kind.                                                                   *)
(***************************************************************************)
SameReadRequest(a, b) ==
  /\ a.fn = b.fn
  /\ a.path = b.path
  /\ a.schema = b.schema
  /\ a.options = b.options
  /\ "method" \notin DOMAIN a.options

C17_SameRequestSameOutcome ==
  \A i, j \in SlotIds :
    ( /\ i # j
      /\ slots[i].pc = "done"
      /\ slots[j].pc = "done"
      /\ SameReadRequest(slots[i], slots[j])
      /\ answers[i] = answers[j] )
    =>
      /\ slots[i].outcome.t = slots[j].outcome.t
      /\ slots[i].outcome.t = "returned" => slots[i].outcome.value = slots[j].outcome.value
      /\ slots[i].outcome.t = "raised" =>
           ErrorKind(slots[i].outcome.error) = ErrorKind(slots[j].outcome.error)

\* the same validated read, answered the same twice, failed validation twice
C17_Witness ==
  \E i, j \in SlotIds :
    /\ i # j
    /\ slots[i].pc = "done"
    /\ slots[j].pc = "done"
    /\ slots[i].fn = "fetchFromStrapi"
    /\ SameReadRequest(slots[i], slots[j])
    /\ answers[i] = answers[j]
    /\ IsResponse(answers[i])
    /\ slots[i].outcome.t = "raised"
    /\ "details" \in DOMAIN slots[i].outcome.error
    /\ slots[i].outcome.error.details # Undefined

====
